---- MODULE Spec2Model ----
(***************************************************************************)
(* A model of the trading backend: the strategies' signal generation, the  *)
(* backtesting engine and the portfolio manager (the ledger).              *)
(*                                                                         *)
(* Numbers.  The program computes in floating point; the model computes in *)
(* fixed point with integers.  Money is in whole currency units, a         *)
(* commission rate is in thousandths (0.001 is 1), a quantity is in whole  *)
(* units of the instrument, and a division rounds down.  Python's None is  *)
(* the empty tuple << >> and a present value v is the tuple << v >>.        *)
(***************************************************************************)
EXTENDS Integers, Sequences, FiniteSets, TLC

VARIABLES
    engine,       \* the BacktestingEngine object (self)
    engine_args,  \* history: the arguments the engine was constructed with
    df,           \* the annotated rows run() has iterated over so far
    after_bar,    \* history: cash and held quantity after each iteration of run()
    engine_pc,    \* where run() is: "loop" or "returned"
    result,       \* what run() returned (<< >> before it returns)
    db,           \* the database: portfolio rows by strategy key, and the trades table
    manager,      \* the PortfolioManager object of the latest request (self)
    call,         \* the latest request served by the routes, with its outcome
    proc,         \* concurrent requests: each one's position, session copy and request
    db_start,     \* the database as it was before the concurrent requests arrived
    portfolio_rows, \* concurrent first references: the rows of the portfolio table
    strategy,     \* the strategy object: its variant and parameters
    data,         \* the bar sequence handed to generate_signals (the close column)
    data_columns, \* the names of the columns of that bar frame
    signals,      \* the annotated frame generate_signals returned (<< >> before)
    signals_summary \* the list get_signals_summary returned (<< >> before)

vars == << engine, engine_args, df, after_bar, engine_pc, result, db, manager,
           call, proc, db_start, portfolio_rows, strategy, data, data_columns,
           signals, signals_summary >>

backtest_vars == << engine, engine_args, df, after_bar, engine_pc, result >>
ledger_vars   == << db, manager, call >>
conc_vars     == << proc, db_start, portfolio_rows >>
strategy_vars == << strategy, data, data_columns, signals, signals_summary >>

(***************************************************************************)
(* Program constants and the bounds of the model.                          *)
(***************************************************************************)
INITIAL_CAPITAL == 100000
COMMISSION == 1
RateScale == 1000

MaxBars == 5

Closes == {2, 3}
Markers == {-1, 0, 1}
CapitalArgs == { << >>, << 1000 >> }
CommissionArgs == { << >>, << 0 >>, << 10 >>, << 1000 >> }

(***************************************************************************)
(* Python values.                                                          *)
(***************************************************************************)
None == << >>

\* x or default: None and 0 are falsy
OrDefault(x, default) == IF x = None THEN default
                         ELSE IF x[1] = 0 THEN default ELSE x[1]

EmptyDict == [k \in {} |-> 0]

DictGet(d, k, default) == IF k \in DOMAIN d THEN d[k] ELSE default

DictSet(d, k, v) == [x \in (DOMAIN d) \cup {k} |-> IF x = k THEN v ELSE d[x]]

DictDel(d, k) == [x \in (DOMAIN d) \ {k} |-> d[x]]

(***************************************************************************)
(* BacktestingEngine                                                       *)
(***************************************************************************)
Engine_init(initial_capital, commission) ==
    LET ic == OrDefault(initial_capital, INITIAL_CAPITAL)
    IN  [ initial_capital |-> ic,
          commission_rate |-> OrDefault(commission, COMMISSION),
          trades          |-> << >>,
          equity_curve    |-> << >>,
          portfolio_value |-> ic,
          cash            |-> ic,
          positions       |-> EmptyDict ]

\* the mutation of C1: the proceeds of a sale are subtracted from the cash
Engine_cash_after_sell_neg(cash, total_proceed) == cash - total_proceed

Engine_cash_after_sell(cash, total_proceed) == cash + total_proceed

\* _execute_trade: the BUY of a bar whose marker is +1
Engine_execute_trade(self, timestamp, price) ==
    LET investment == (self.cash * 9) \div 10
        commission == (investment * self.commission_rate) \div RateScale
        quantity   == (investment - commission) \div price
        total_cost == (price * quantity) + commission
        cash1      == self.cash - total_cost
        trade      == [ timestamp  |-> timestamp,
                        symbol     |-> "STOCK",
                        order_type |-> "BUY",
                        price      |-> price,
                        quantity   |-> quantity,
                        commission |-> commission,
                        total      |-> total_cost,
                        cash_after |-> cash1,
                        pnl        |-> 0 ]
    IN  IF quantity <= 0 THEN self
        ELSE IF self.cash >= total_cost
        THEN [ self EXCEPT
                 !.cash = cash1,
                 !.positions = DictSet(self.positions, "STOCK",
                                   DictGet(self.positions, "STOCK", 0) + quantity),
                 !.trades = Append(self.trades, trade) ]
        ELSE self

\* the mutation of C19: the entry price is taken from the first BUY of the log
Engine_first_buy(trades) ==
    LET buys == { i \in 1..Len(trades) :
                    trades[i].symbol = "STOCK" /\ trades[i].order_type = "BUY" }
    IN  IF buys = {} THEN None
        ELSE << trades[CHOOSE i \in buys : \A j \in buys : i <= j] >>

\* the most recent BUY trade of the log, None when there is none
Engine_last_buy(trades) ==
    LET buys == { i \in 1..Len(trades) :
                    trades[i].symbol = "STOCK" /\ trades[i].order_type = "BUY" }
    IN  IF buys = {} THEN None
        ELSE << trades[CHOOSE i \in buys : \A j \in buys : j <= i] >>

\* _execute_sell: the SELL of a bar whose marker is -1
Engine_execute_sell(self, timestamp, price) ==
    LET quantity      == DictGet(self.positions, "STOCK", 0)
        commission    == ((price * quantity) * self.commission_rate) \div RateScale
        total_proceed == (price * quantity) - commission
        cash1         == Engine_cash_after_sell(self.cash, total_proceed)
        last_buy      == Engine_last_buy(self.trades)
        buy_price     == IF last_buy # None THEN last_buy[1].price ELSE price
        pnl           == (price - buy_price) * quantity - commission
        trade         == [ timestamp  |-> timestamp,
                           symbol     |-> "STOCK",
                           order_type |-> "SELL",
                           price      |-> price,
                           quantity   |-> quantity,
                           commission |-> commission,
                           total      |-> total_proceed,
                           cash_after |-> cash1,
                           pnl        |-> pnl ]
    IN  IF quantity <= 0 THEN self
        ELSE [ self EXCEPT
                 !.cash = cash1,
                 !.positions = DictSet(self.positions, "STOCK", 0),
                 !.trades = Append(self.trades, trade) ]

\* the mutation of C7: the held position is left out of the portfolio value
Engine_position_value_none(positions, current_price) == 0

Engine_position_value(positions, current_price) ==
    DictGet(positions, "STOCK", 0) * current_price

\* _calculate_portfolio_value: also stores the value in self.portfolio_value
Engine_calculate_portfolio_value(self, current_price) ==
    LET total_value == self.cash + Engine_position_value(self.positions, current_price)
    IN  [ self EXCEPT !.portfolio_value = total_value ]

\* one iteration of the loop of run() over the row (close, crossover)
Engine_run_row(self, timestamp, price, signal) ==
    LET traded == IF signal = 1 THEN Engine_execute_trade(self, timestamp, price)
                  ELSE IF signal = -1 THEN Engine_execute_sell(self, timestamp, price)
                  ELSE self
        valued == Engine_calculate_portfolio_value(traded, price)
        point  == [ timestamp       |-> timestamp,
                    portfolio_value |-> valued.portfolio_value,
                    cash            |-> valued.cash,
                    returns         |-> ((valued.portfolio_value - valued.initial_capital)
                                           * 100) \div valued.initial_capital ]
    IN  [ valued EXCEPT !.equity_curve = Append(valued.equity_curve, point) ]

\* run(): the loop body, on the next row of the annotated frame
RunRow(close, crossover) ==
    /\ engine_pc = "loop"
    /\ Len(df) < MaxBars
    /\ LET timestamp == Len(df) + 1
           self1 == Engine_run_row(engine, timestamp, close, crossover)
       IN  /\ engine' = self1
           /\ df' = Append(df, [timestamp |-> timestamp, close |-> close,
                                crossover |-> crossover])
           /\ after_bar' = Append(after_bar,
                               [ cash     |-> self1.cash,
                                 quantity |-> DictGet(self1.positions, "STOCK", 0) ])
    /\ UNCHANGED << engine_args, engine_pc, result >>
    /\ UNCHANGED << ledger_vars, conc_vars, strategy_vars >>

RECURSIVE Sum(_)
Sum(seq) == IF seq = << >> THEN 0 ELSE Head(seq) + Sum(Tail(seq))

RECURSIVE GCD(_, _)
GCD(a, b) == IF b = 0 THEN a ELSE GCD(b, a % b)

\* the rows of a list that satisfy a test, in order
RECURSIVE Where(_, _)
Where(seq, keep) ==
    IF seq = << >> THEN << >>
    ELSE IF keep[Head(seq)] THEN << Head(seq) >> \o Where(Tail(seq), keep)
    ELSE Where(Tail(seq), keep)

\* equity_df['portfolio_value'].pct_change(): row t over row t - 1, kept as the
\* growth value[t] / value[t-1] in lowest terms (the return is the growth - 1);
\* the first row is NaN and is skipped by mean() and std()
Engine_daily_returns(equity_curve) ==
    [ t \in 2..Len(equity_curve) |->
        LET now    == equity_curve[t].portfolio_value
            before == equity_curve[t - 1].portfolio_value
            g      == GCD(now, before)
        IN  [ num |-> now \div g, den |-> before \div g ] ]

\* Series.std() is the sample deviation (ddof = 1): NaN unless there are at
\* least two values that are not NaN
Engine_std_is_nan(daily_returns) == Cardinality(DOMAIN daily_returns) < 2

\* the sharpe ratio of _calculate_metrics, as one of
\*   "0"    the literal 0 of the two guards,
\*   "nan"  mean / std with std NaN (NaN != 0 is true),
\*   "mean / std * sqrt(252)"  the quotient, with std a non-zero number
Engine_sharpe_ratio(equity_curve) ==
    LET daily_returns == Engine_daily_returns(equity_curve)
    IN  IF Len(equity_curve) > 1
        THEN IF Engine_std_is_nan(daily_returns) THEN "nan"
             ELSE IF \A t, u \in DOMAIN daily_returns :
                        daily_returns[t] = daily_returns[u]
                  THEN "0"
                  ELSE "mean / std * sqrt(252)"
        ELSE "0"

RECURSIVE Engine_cummax(_, _)
Engine_cummax(equity_curve, t) ==
    IF t = 1 THEN equity_curve[1].portfolio_value
    ELSE LET before == Engine_cummax(equity_curve, t - 1)
         IN  IF equity_curve[t].portfolio_value > before
             THEN equity_curve[t].portfolio_value ELSE before

\* _calculate_metrics: {} when the equity curve is empty
Engine_calculate_metrics(self) ==
    IF self.equity_curve = << >> THEN EmptyDict
    ELSE
    LET total_return   == self.portfolio_value - self.initial_capital
        pnls           == [ i \in 1..Len(self.trades) |-> self.trades[i].pnl ]
        winning_pnls   == Where(pnls, [ x \in { pnls[i] : i \in DOMAIN pnls } |-> x > 0 ])
        losing_pnls    == Where(pnls, [ x \in { pnls[i] : i \in DOMAIN pnls } |-> x < 0 ])
        total_trades   == Len(self.trades)
        drawdown       == { ((self.equity_curve[t].portfolio_value
                                - Engine_cummax(self.equity_curve, t)) * 100)
                              \div Engine_cummax(self.equity_curve, t) :
                            t \in 1..Len(self.equity_curve) }
        total_wins     == Sum(winning_pnls)
        total_losses   == IF losing_pnls # << >> THEN -Sum(losing_pnls) ELSE 1
        values ==
          [ total_return         |-> total_return,
            total_return_percent |-> (total_return * 100) \div self.initial_capital,
            winning_trades       |-> Len(winning_pnls),
            losing_trades        |-> Len(losing_pnls),
            win_rate             |-> IF total_trades > 0
                                     THEN (Len(winning_pnls) * 100) \div total_trades
                                     ELSE 0,
            max_drawdown         |-> CHOOSE m \in drawdown : \A x \in drawdown : m <= x,
            avg_trade_pnl        |-> IF pnls # << >> THEN Sum(pnls) \div Len(pnls) ELSE 0,
            avg_win              |-> IF winning_pnls # << >>
                                     THEN total_wins \div Len(winning_pnls) ELSE 0,
            avg_loss             |-> IF losing_pnls # << >>
                                     THEN Sum(losing_pnls) \div Len(losing_pnls) ELSE 0,
            profit_factor        |-> IF total_losses # 0
                                     THEN total_wins \div total_losses ELSE 0 ]
    IN  [ numbers      |-> values,
          sharpe_ratio |-> Engine_sharpe_ratio(self.equity_curve) ]

\* metrics.get(key, 0) on the numeric metrics
MetricsGet(metrics, key) ==
    IF metrics = EmptyDict THEN 0 ELSE metrics.numbers[key]

\* the dict run() returns
Engine_run_result(self) ==
    LET metrics == Engine_calculate_metrics(self)
    IN  [ initial_capital       |-> self.initial_capital,
          final_portfolio_value |-> self.portfolio_value,
          total_return          |-> MetricsGet(metrics, "total_return"),
          total_return_percent  |-> MetricsGet(metrics, "total_return_percent"),
          trades                |-> self.trades,
          total_trades          |-> Len(self.trades),
          winning_trades        |-> MetricsGet(metrics, "winning_trades"),
          losing_trades         |-> MetricsGet(metrics, "losing_trades"),
          win_rate              |-> MetricsGet(metrics, "win_rate"),
          max_drawdown          |-> MetricsGet(metrics, "max_drawdown"),
          sharpe_ratio          |-> IF metrics = EmptyDict THEN "0"
                                    ELSE metrics.sharpe_ratio,
          equity_curve          |-> self.equity_curve,
          metrics               |-> metrics ]

\* run(): after the loop, the result is returned
RunReturn ==
    /\ engine_pc = "loop"
    /\ engine_pc' = "returned"
    /\ result' = Append(result, Engine_run_result(engine))
    /\ UNCHANGED << engine, engine_args, df, after_bar >>
    /\ UNCHANGED << ledger_vars, conc_vars, strategy_vars >>

IdleLedger == /\ db = [ portfolio |-> EmptyDict, trades |-> << >> ]
              /\ manager = None
              /\ call = None
              /\ proc = << >>
              /\ db_start = None
              /\ portfolio_rows = << >>

IdleStrategy == /\ strategy = None
                /\ data = << >>
                /\ data_columns = {}
                /\ signals = None
                /\ signals_summary = None

IdleBacktest == /\ engine = None
                /\ engine_args = None
                /\ df = << >>
                /\ after_bar = << >>
                /\ engine_pc = "none"
                /\ result = None

InitBacktest ==
    /\ \E ic \in CapitalArgs, c \in CommissionArgs :
          /\ engine = Engine_init(ic, c)
          /\ engine_args = [ initial_capital |-> ic, commission |-> c ]
    /\ df = << >>
    /\ after_bar = << >>
    /\ engine_pc = "loop"
    /\ result = None
    /\ IdleLedger
    /\ IdleStrategy

NextBacktest ==
    \/ \E close \in Closes, crossover \in Markers : RunRow(close, crossover)
    \/ RunReturn

SpecBacktest == InitBacktest /\ [][NextBacktest]_vars

(***************************************************************************)
(* PortfolioManager (the ledger).  A price is in currency units per unit   *)
(* of the instrument; the data feed's answer to get_latest_price is None   *)
(* or << price >>.  The database session persists, at commit, the          *)
(* attributes the code assigned to the loaded Portfolio object and the     *)
(* Trade it added.                                                         *)
(***************************************************************************)
MaxTrades == 3

Strategies == {"MA_CROSSOVER"}
Symbols == {"AAPL", "BTCUSD"}
OrderTypes == {"BUY", "SELL"}
Quantities == {1, 3}
AnyQuantities == {-1, 0, 1}
Quotes == { None, << 10000 >>, << 20000 >> }
EquityQuotes == [Symbols -> { None, << 10000 >> }]

RECURSIVE SumOver(_, _)
SumOver(S, f) == IF S = {} THEN 0
                 ELSE LET x == CHOOSE y \in S : TRUE
                      IN  f[x] + SumOver(S \ {x}, f)

\* the mutation of C23: the rate is taken over the closed trades only
Portfolio_win_rate_over_closed(portfolio) ==
    IF portfolio.winning_trades + portfolio.losing_trades = 0 THEN 0
    ELSE (portfolio.winning_trades * 100)
             \div (portfolio.winning_trades + portfolio.losing_trades)

\* Portfolio.win_rate
Portfolio_win_rate(portfolio) ==
    IF portfolio.total_trades = 0 THEN 0
    ELSE (portfolio.winning_trades * 100) \div portfolio.total_trades

\* the mutation of C18: a reference to a stored account puts its cash back to
\* the starting capital
PM_stored_portfolio_reset(database, strategy_key, initial_capital) ==
    [ database.portfolio[strategy_key] EXCEPT !.cash = initial_capital ]

\* the row the query of _get_or_create_portfolio finds
PM_stored_portfolio(database, strategy_key, initial_capital) ==
    database.portfolio[strategy_key]

\* _get_or_create_portfolio: the stored row, or a new row inserted and committed
PM_get_or_create_portfolio(database, strategy_key, initial_capital) ==
    IF strategy_key \in DOMAIN database.portfolio
    THEN [ portfolio |-> PM_stored_portfolio(database, strategy_key, initial_capital),
           db |-> database ]
    ELSE LET portfolio == [ strategy       |-> strategy_key,
                            cash           |-> initial_capital,
                            equity         |-> initial_capital,
                            positions      |-> EmptyDict,
                            total_pnl      |-> 0,
                            total_trades   |-> 0,
                            winning_trades |-> 0,
                            losing_trades  |-> 0 ]
         IN  [ portfolio |-> portfolio,
               db |-> [ database EXCEPT
                          !.portfolio = DictSet(@, strategy_key, portfolio) ] ]

\* PortfolioManager.__init__
PM_init(database, strategy_key, initial_capital) ==
    LET ic == OrDefault(initial_capital, INITIAL_CAPITAL)
        got == PM_get_or_create_portfolio(database, strategy_key, ic)
    IN  [ self |-> [ strategy        |-> strategy_key,
                     initial_capital |-> ic,
                     commission_rate |-> COMMISSION,
                     portfolio       |-> got.portfolio ],
          db |-> got.db ]

\* the mutation of C20: the BUY trades of every symbol of the strategy enter the
\* average
PM_get_average_buy_price_any_symbol(database, strategy_key, symbol) ==
    LET buy_trades == { i \in 1..Len(database.trades) :
                          /\ database.trades[i].strategy = strategy_key
                          /\ database.trades[i].order_type = "BUY"
                          /\ database.trades[i].status = "EXECUTED" }
        cost == [ i \in buy_trades |->
                    database.trades[i].price * database.trades[i].quantity ]
        qty  == [ i \in buy_trades |-> database.trades[i].quantity ]
    IN  [ total_cost     |-> SumOver(buy_trades, cost),
          total_quantity |-> SumOver(buy_trades, qty) ]

\* _get_average_buy_price: total cost and total quantity of the executed BUY
\* trades of (symbol, strategy); the average is their quotient, 0 without buys
PM_get_average_buy_price(database, strategy_key, symbol) ==
    LET buy_trades == { i \in 1..Len(database.trades) :
                          /\ database.trades[i].symbol = symbol
                          /\ database.trades[i].strategy = strategy_key
                          /\ database.trades[i].order_type = "BUY"
                          /\ database.trades[i].status = "EXECUTED" }
        cost == [ i \in buy_trades |->
                    database.trades[i].price * database.trades[i].quantity ]
        qty  == [ i \in buy_trades |-> database.trades[i].quantity ]
    IN  [ total_cost     |-> SumOver(buy_trades, cost),
          total_quantity |-> SumOver(buy_trades, qty) ]

\* pnl = (current_price - avg_buy_price) * quantity - commission
PM_pnl(current_price, avg, quantity, commission) ==
    IF avg.total_quantity > 0
    THEN (((current_price * avg.total_quantity) - avg.total_cost) * quantity)
             \div avg.total_quantity - commission
    ELSE (current_price * quantity) - commission

\* _calculate_equity: a symbol whose price lookup fails is skipped
PM_calculate_equity(portfolio, eq_quotes) ==
    LET priced == { s \in DOMAIN portfolio.positions : eq_quotes[s] # None }
        value  == [ s \in priced |-> eq_quotes[s][1] * portfolio.positions[s] ]
    IN  portfolio.cash + SumOver(priced, value)

\* the feed is asked only for the symbols held: eq_quotes answers no other
PM_equity_asked(portfolio, eq_quotes) ==
    \A s \in Symbols : s \notin DOMAIN portfolio.positions => eq_quotes[s] = None

\* the symbols _calculate_equity leaves out of the equity
PM_equity_skipped(portfolio, eq_quotes) ==
    { s \in DOMAIN portfolio.positions : eq_quotes[s] = None }

\* the mutation of C2: an emptied position is kept in the map
PM_position_after_sell_keep(positions, symbol, remaining) ==
    DictSet(positions, symbol, remaining)

\* positions[symbol] -= quantity; the entry is deleted when it reaches 0
PM_position_after_sell(positions, symbol, remaining) ==
    IF remaining = 0 THEN DictDel(positions, symbol)
    ELSE DictSet(positions, symbol, remaining)

\* the mutation of C4: a BUY is never refused
PM_insufficient_cash_unchecked(cash, total_cost) == FALSE

PM_insufficient_cash(cash, total_cost) == cash < total_cost

\* db.commit(): the session writes the attributes of the loaded object that
\* were assigned a new value onto the stored row
Session_commit(stored, loaded, assigned) ==
    [ f \in DOMAIN assigned |->
        IF assigned[f] # loaded[f] THEN assigned[f] ELSE stored[f] ]

\* execute_trade: raised is None on success, else the exception that left it.
\* self is the manager as the exception or the return leaves it.
PM_execute_trade(self, database, symbol, order_type, quantity, quote, eq_quotes) ==
    LET pf == self.portfolio
        failed(kind, obj) == [ raised |-> << kind >>, self |-> obj,
                               db |-> database, trade |-> None ]
    IN
    IF quote = None
    THEN failed("TypeError", self)              \* None * quantity
    ELSE
    LET current_price == quote[1]
        commission == ((current_price * quantity) * self.commission_rate)
                          \div RateScale
        total_cost == (current_price * quantity) + commission
        trade0 == [ symbol     |-> symbol,
                    strategy   |-> self.strategy,
                    order_type |-> order_type,
                    quantity   |-> quantity,
                    price      |-> current_price,
                    commission |-> commission,
                    status     |-> "EXECUTED",
                    pnl        |-> 0 ]
        finish(pf1, trade) ==
            LET pf2 == [ pf1 EXCEPT !.total_trades = @ + 1 ]
                pf3 == [ pf2 EXCEPT !.equity = PM_calculate_equity(pf2, eq_quotes) ]
                row == Session_commit(database.portfolio[self.strategy], pf, pf3)
            IN  [ raised |-> None,
                  self   |-> [ self EXCEPT !.portfolio = row ],   \* db.refresh
                  db     |-> [ database EXCEPT
                                 !.portfolio = DictSet(@, self.strategy, row),
                                 !.trades = Append(@, trade) ],
                  trade  |-> << trade >> ]
    IN
    IF order_type = "BUY"
    THEN IF PM_insufficient_cash(pf.cash, total_cost)
         THEN failed("ValueError: Insufficient cash", self)
         ELSE finish([ pf EXCEPT
                         !.cash = @ - total_cost,
                         !.positions = DictSet(@, symbol,
                                           DictGet(@, symbol, 0) + quantity) ],
                     trade0)
    ELSE
    LET current_quantity == DictGet(pf.positions, symbol, 0)
        avg == PM_get_average_buy_price(database, self.strategy, symbol)
        pnl == PM_pnl(current_price, avg, quantity, commission)
        pf1 == [ pf EXCEPT !.cash = @ + ((current_price * quantity) - commission) ]
    IN
    IF current_quantity < quantity
    THEN failed("ValueError: Insufficient position", self)
    ELSE IF symbol \notin DOMAIN pf.positions
    THEN failed("KeyError", [ self EXCEPT !.portfolio = pf1 ])  \* positions[symbol] -= quantity
    ELSE finish([ pf1 EXCEPT
                    !.positions = PM_position_after_sell(@, symbol,
                                      pf.positions[symbol] - quantity),
                    !.total_pnl = @ + pnl,
                    !.winning_trades = IF pnl > 0 THEN @ + 1 ELSE @,
                    !.losing_trades = IF pnl > 0 THEN @ ELSE @ + 1 ],
                [ trade0 EXCEPT !.pnl = pnl ])

\* get_portfolio_summary
PM_get_portfolio_summary(self, eq_quotes) ==
    LET equity    == PM_calculate_equity(self.portfolio, eq_quotes)
        total_pnl == equity - self.initial_capital
    IN  [ strategy          |-> self.strategy,
          cash              |-> self.portfolio.cash,
          equity            |-> equity,
          initial_capital   |-> self.initial_capital,
          total_pnl         |-> total_pnl,
          total_pnl_percent |-> (total_pnl * 100) \div self.initial_capital,
          positions         |-> self.portfolio.positions,
          total_trades      |-> self.portfolio.total_trades,
          winning_trades    |-> self.portfolio.winning_trades,
          losing_trades     |-> self.portfolio.losing_trades,
          win_rate          |-> Portfolio_win_rate(self.portfolio) ]

\* routes/trades.py execute_trade: ValueError is answered 400, any other
\* exception 500
ExecuteTradeRoute(strategy_key, symbol, order_type, quantity, quote, eq_quotes) ==
    /\ Len(db.trades) < MaxTrades
    /\ \E made \in { PM_init(db, strategy_key, None) } :
       \E done \in { PM_execute_trade(made.self, made.db, symbol, order_type,
                                      quantity, quote, eq_quotes) } :
       LET status == IF done.raised = None THEN 200
                     ELSE IF done.raised[1] \in { "ValueError: Insufficient cash",
                                                  "ValueError: Insufficient position" }
                          THEN 400 ELSE 500
       IN  /\ IF done.raised = None
              THEN PM_equity_asked(done.self.portfolio, eq_quotes)
              ELSE \A s \in Symbols : eq_quotes[s] = None
           /\ db' = done.db
           /\ manager' = << done.self >>
           /\ call' = << [ op         |-> "execute_trade",
                           strategy   |-> strategy_key,
                           symbol     |-> symbol,
                           order_type |-> order_type,
                           quantity   |-> quantity,
                           quote      |-> quote,
                           skipped    |-> IF done.raised = None
                                          THEN PM_equity_skipped(done.self.portfolio,
                                                                 eq_quotes)
                                          ELSE {},
                           before     |-> made.self.portfolio,
                           trades_before |-> made.db.trades,
                           raised     |-> done.raised,
                           status     |-> status,
                           returned   |-> done.trade ] >>
    /\ UNCHANGED << backtest_vars, conc_vars, strategy_vars >>

\* routes/portfolio.py get_portfolio: the summary of the (possibly new) account
GetPortfolioRoute(strategy_key, eq_quotes) ==
    /\ \E made \in { PM_init(db, strategy_key, None) } :
       LET summary == PM_get_portfolio_summary(made.self, eq_quotes)
       IN  /\ PM_equity_asked(made.self.portfolio, eq_quotes)
           /\ db' = made.db
           /\ manager' = << made.self >>
           /\ call' = << [ op         |-> "get_portfolio",
                           strategy   |-> strategy_key,
                           symbol     |-> "",
                           order_type |-> "",
                           quantity   |-> 0,
                           quote      |-> None,
                           skipped    |-> PM_equity_skipped(made.self.portfolio,
                                                            eq_quotes),
                           before     |-> made.self.portfolio,
                           trades_before |-> made.db.trades,
                           raised     |-> None,
                           status     |-> 200,
                           returned   |-> << summary >> ] >>
    /\ UNCHANGED << backtest_vars, conc_vars, strategy_vars >>

\* get_position
PM_get_position(self, symbol) == DictGet(self.portfolio.positions, symbol, 0)

\* has_position
PM_has_position(self, symbol) == PM_get_position(self, symbol) > 0

\* PortfolioManager(db, strategy).get_position(symbol) and has_position(symbol)
GetPosition(strategy_key, symbol) ==
    /\ \E made \in { PM_init(db, strategy_key, None) } :
          /\ db' = made.db
          /\ manager' = << made.self >>
          /\ call' = << [ op         |-> "get_position",
                          strategy   |-> strategy_key,
                          symbol     |-> symbol,
                          order_type |-> "",
                          quantity   |-> 0,
                          quote      |-> None,
                          skipped    |-> {},
                          before     |-> made.self.portfolio,
                          trades_before |-> made.db.trades,
                          raised     |-> None,
                          status     |-> 200,
                          returned   |-> << [ get_position |->
                                                PM_get_position(made.self, symbol),
                                              has_position |->
                                                PM_has_position(made.self, symbol) ] >> ] >>
    /\ UNCHANGED << backtest_vars, conc_vars, strategy_vars >>

InitLedger ==
    /\ db = [ portfolio |-> EmptyDict, trades |-> << >> ]
    /\ manager = None
    /\ call = None
    /\ proc = << >>
    /\ db_start = None
    /\ portfolio_rows = << >>
    /\ IdleBacktest
    /\ IdleStrategy

\* requests with quantity > 0, one at a time
NextLedger ==
    \/ \E k \in Strategies, s \in Symbols, ot \in OrderTypes, q \in Quantities,
          quote \in Quotes, eq \in EquityQuotes :
          ExecuteTradeRoute(k, s, ot, q, quote, eq)
    \/ \E k \in Strategies, eq \in EquityQuotes : GetPortfolioRoute(k, eq)
    \/ \E k \in Strategies, s \in Symbols : GetPosition(k, s)

SpecLedger == InitLedger /\ [][NextLedger]_vars

\* requests with any quantity the request schema admits, one at a time
NextLedgerAny ==
    \/ \E k \in Strategies, s \in Symbols, ot \in OrderTypes, q \in AnyQuantities,
          quote \in Quotes, eq \in EquityQuotes :
          ExecuteTradeRoute(k, s, ot, q, quote, eq)
    \/ \E k \in Strategies, eq \in EquityQuotes : GetPortfolioRoute(k, eq)
    \/ \E k \in Strategies, s \in Symbols : GetPosition(k, s)

SpecLedgerAny == InitLedger /\ [][NextLedgerAny]_vars

(***************************************************************************)
(* Concurrent requests to routes/trades.py execute_trade.  Each request    *)
(* has its own database session: constructing the PortfolioManager loads   *)
(* the account into the session, and execute_trade checks and modifies     *)
(* that loaded object and commits it.  Nothing in the code holds a lock    *)
(* between the two.                                                        *)
(***************************************************************************)
NProcs == 2

Procs == 1..NProcs
ConcStrategies == {"MA_CROSSOVER", "RSI"}

EmptyDb == [ portfolio |-> EmptyDict, trades |-> << >> ]

\* a database in which MA_CROSSOVER has bought 3 AAPL at 10000
SeededDb ==
    PM_execute_trade(PM_init(EmptyDb, "MA_CROSSOVER", None).self,
                     PM_init(EmptyDb, "MA_CROSSOVER", None).db,
                     "AAPL", "BUY", 3, << 10000 >>,
                     [s \in Symbols |-> None]).db

\* the request arrives: PortfolioManager(db, trade_request.strategy)
Load(p, strategy_key, symbol, order_type, quantity) ==
    /\ proc[p].pc = "idle"
    /\ \E made \in { PM_init(db, strategy_key, None) } :
          /\ db' = made.db
          /\ proc' = [ proc EXCEPT ![p] =
                         [ pc     |-> "loaded",
                           req    |-> [ strategy   |-> strategy_key,
                                        symbol     |-> symbol,
                                        order_type |-> order_type,
                                        quantity   |-> quantity,
                                        quote      |-> None,
                                        eq_quotes  |-> [s \in Symbols |-> None] ],
                           self   |-> << made.self >>,
                           raised |-> None ] ]
    /\ UNCHANGED << db_start, portfolio_rows, manager, call >>
    /\ UNCHANGED << backtest_vars, strategy_vars >>

\* portfolio_manager.execute_trade(...) on the loaded account, with its commit
Execute(p, quote, eq_quotes) ==
    /\ proc[p].pc = "loaded"
    /\ \E done \in { PM_execute_trade(proc[p].self[1], db, proc[p].req.symbol,
                                      proc[p].req.order_type, proc[p].req.quantity,
                                      quote, eq_quotes) } :
          /\ IF done.raised = None
             THEN PM_equity_asked(done.self.portfolio, eq_quotes)
             ELSE \A s \in Symbols : eq_quotes[s] = None
          /\ db' = done.db
          /\ proc' = [ proc EXCEPT ![p] =
                         [ pc     |-> "done",
                           req    |-> [ proc[p].req EXCEPT !.quote = quote,
                                                           !.eq_quotes = eq_quotes ],
                           self   |-> << done.self >>,
                           raised |-> done.raised ] ]
    /\ UNCHANGED << db_start, portfolio_rows, manager, call >>
    /\ UNCHANGED << backtest_vars, strategy_vars >>

InitConcurrent ==
    /\ db_start \in { EmptyDb, SeededDb }
    /\ db = db_start
    /\ portfolio_rows = << >>
    /\ proc = [ p \in Procs |-> [ pc |-> "idle", req |-> None, self |-> None,
                                  raised |-> None ] ]
    /\ manager = None
    /\ call = None
    /\ IdleBacktest
    /\ IdleStrategy

NextConcurrent ==
    \/ \E p \in Procs, k \in ConcStrategies, s \in Symbols, ot \in OrderTypes,
          q \in Quantities : Load(p, k, s, ot, q)
    \/ \E p \in Procs, quote \in Quotes, eq \in EquityQuotes : Execute(p, quote, eq)

SpecConcurrent == InitConcurrent /\ [][NextConcurrent]_vars

(***************************************************************************)
(* Indicators and strategies.  A frame column is a sequence aligned with   *)
(* the bars; NaN is None.  A moving average is kept as the exact fraction  *)
(* num/den, so that two averages compare as the real numbers do.           *)
(***************************************************************************)
MaxLen == 5

StrategyCloses == {1, 2, 3}
DEFAULT_OVERSOLD == 30
DEFAULT_OVERBOUGHT == 70

RECURSIVE SumRange(_, _, _)
SumRange(col, from, to) ==
    IF from > to THEN 0 ELSE col[from] + SumRange(col, from + 1, to)

RECURSIVE Pow(_, _)
Pow(b, n) == IF n = 0 THEN 1 ELSE b * Pow(b, n - 1)

\* calculate_sma: rolling(window=period).mean(), NaN during the warm-up
calculate_sma(col, period) ==
    [ t \in 1..Len(col) |->
        IF t < period THEN None
        ELSE << [ num |-> SumRange(col, t - period + 1, t), den |-> period ] >> ]

RECURSIVE EmaNum(_, _, _)
EmaNum(col, span, t) ==
    IF t = 1 THEN col[1]
    ELSE ((span - 1) * EmaNum(col, span, t - 1))
            + ((2 * col[t]) * Pow(span + 1, t - 2))

\* calculate_ema: ewm(span=period, adjust=False).mean(), seeded by the first
\* value: y[t] = (1 - a) * y[t-1] + a * x[t] with a = 2 / (period + 1)
calculate_ema(col, period) ==
    [ t \in 1..Len(col) |->
        << [ num |-> EmaNum(col, period, t), den |-> Pow(period + 1, t - 1) ] >> ]

\* the mutation of C12: equal averages count as the short one being above
CellGreater_or_equal(a, b) ==
    /\ a # None
    /\ b # None
    /\ a[1].num * b[1].den >= b[1].num * a[1].den

\* a > b and a < b on two frame cells: False when either is NaN
CellGreater(a, b) ==
    /\ a # None
    /\ b # None
    /\ a[1].num * b[1].den > b[1].num * a[1].den

CellLess(a, b) == CellGreater(b, a)

\* Series.diff(): NaN on the first row
SeriesDiff(col) ==
    [ t \in 1..Len(col) |-> IF t = 1 THEN None ELSE << col[t] - col[t - 1] >> ]

\* Series.shift(1): NaN on the first row
SeriesShift(col) ==
    [ t \in 1..Len(col) |-> IF t = 1 THEN None ELSE << col[t - 1] >> ]

\* the mutation of C9: any rise of the signal is marked a bullish crossover and
\* any fall a bearish one
MA_crossover_any_change(position) ==
    IF position # None /\ position[1] > 0 THEN 1
    ELSE IF position # None /\ position[1] < 0 THEN -1
    ELSE 0

\* crossover: 1 where position == 2, -1 where position == -2, else 0
MA_crossover(position) ==
    IF position = << 2 >> THEN 1
    ELSE IF position = << -2 >> THEN -1
    ELSE 0

\* MACrossover.generate_signals
MA_generate_signals(self, close) ==
    LET short_ma == IF self.ma_type = "SMA"
                    THEN calculate_sma(close, self.short_window)
                    ELSE calculate_ema(close, self.short_window)
        long_ma  == IF self.ma_type = "SMA"
                    THEN calculate_sma(close, self.long_window)
                    ELSE calculate_ema(close, self.long_window)
        signal   == [ t \in 1..Len(close) |->
                        IF CellLess(short_ma[t], long_ma[t]) THEN -1
                        ELSE IF CellGreater(short_ma[t], long_ma[t]) THEN 1
                        ELSE 0 ]
        position == SeriesDiff(signal)
    IN  [ close     |-> close,
          signal    |-> signal,
          position  |-> position,
          crossover |-> [ t \in 1..Len(close) |-> MA_crossover(position[t]) ] ]

\* calculate_rsi: the rolling sums of the gains and of the losses (their means
\* share the divisor period); NaN while the window is not full
calculate_rsi(col, period) ==
    LET delta == SeriesDiff(col)
        gain  == [ t \in 1..Len(col) |->
                     IF delta[t] # None /\ delta[t][1] > 0 THEN delta[t][1] ELSE 0 ]
        loss  == [ t \in 1..Len(col) |->
                     IF delta[t] # None /\ delta[t][1] < 0 THEN -delta[t][1] ELSE 0 ]
    IN  [ t \in 1..Len(col) |->
            IF t < period THEN None
            ELSE << [ gain |-> SumRange(gain, t - period + 1, t),
                      loss |-> SumRange(loss, t - period + 1, t) ] >> ]

\* rsi < level, for rsi = 100 - 100 / (1 + gain / loss): gain / 0 is inf for
\* gain > 0 (rsi = 100) and NaN for gain = 0
RsiLess(rsi, level) ==
    /\ rsi # None
    /\ IF rsi[1].loss = 0
       THEN rsi[1].gain > 0 /\ 100 < level
       ELSE 100 * rsi[1].gain < level * (rsi[1].gain + rsi[1].loss)

RsiGreater(rsi, level) ==
    /\ rsi # None
    /\ IF rsi[1].loss = 0
       THEN rsi[1].gain > 0 /\ 100 > level
       ELSE 100 * rsi[1].gain > level * (rsi[1].gain + rsi[1].loss)

\* the mutation of C10: the entry is marked on every bar of the signal
Entry_position_level(signal, prev_signal) == signal

\* position: 1 where signal == 1 and prev_signal != 1, -1 where signal == -1
\* and prev_signal != -1, else 0
Entry_position(signal, prev_signal) ==
    IF signal = -1 /\ prev_signal # << -1 >> THEN -1
    ELSE IF signal = 1 /\ prev_signal # << 1 >> THEN 1
    ELSE 0

\* RSIStrategy.generate_signals
RSI_generate_signals(self, close) ==
    LET rsi         == calculate_rsi(close, self.period)
        signal      == [ t \in 1..Len(close) |->
                           IF RsiGreater(rsi[t], self.overbought) THEN -1
                           ELSE IF RsiLess(rsi[t], self.oversold) THEN 1
                           ELSE 0 ]
        prev_signal == SeriesShift(signal)
        position    == [ t \in 1..Len(close) |->
                           Entry_position(signal[t], prev_signal[t]) ]
    IN  [ close     |-> close,
          signal    |-> signal,
          position  |-> position,
          crossover |-> position ]

\* calculate_bollinger_bands: the rolling sum and sum of squares of the window,
\* from which sma = sum / period and, with the sample deviation (ddof = 1),
\* std^2 = (period * squares - sum^2) / (period * (period - 1)); NaN while the
\* window is not full
calculate_bollinger_bands(col, period, std_dev) ==
    LET squares == [ t \in 1..Len(col) |-> col[t] * col[t] ]
    IN  [ t \in 1..Len(col) |->
            IF t < period THEN None
            ELSE << [ sum     |-> SumRange(col, t - period + 1, t),
                      squares |-> SumRange(squares, t - period + 1, t),
                      period  |-> period,
                      std_dev |-> std_dev ] >> ]

\* the band is NaN when the deviation is: a window of one value has no sample
\* deviation
BandIsNaN(bb) == bb = None \/ bb[1].period < 2

\* period * (period - 1) * (std_dev * std)^2 scaled by period
BandSpread(bb) ==
    (bb.std_dev * bb.std_dev) * bb.period
        * ((bb.period * bb.squares) - (bb.sum * bb.sum))

\* df['close'] <= df['bb_lower'], with bb_lower = sma - std * std_dev
CloseLeLower(close, bb) ==
    /\ ~BandIsNaN(bb)
    /\ LET below == bb[1].sum - (bb[1].period * close)
       IN  /\ below >= 0
           /\ (below * below) * (bb[1].period - 1) >= BandSpread(bb[1])

\* df['close'] >= df['bb_upper'], with bb_upper = sma + std * std_dev
CloseGeUpper(close, bb) ==
    /\ ~BandIsNaN(bb)
    /\ LET above == (bb[1].period * close) - bb[1].sum
       IN  /\ above >= 0
           /\ (above * above) * (bb[1].period - 1) >= BandSpread(bb[1])

\* df['close'] >= df['bb_middle'] and df['close'] <= df['bb_middle']
CloseGeMiddle(close, bb) == bb # None /\ bb[1].period * close >= bb[1].sum

CloseLeMiddle(close, bb) == bb # None /\ bb[1].period * close <= bb[1].sum

\* the mutation of C13: a close exactly on the lower band is not a buy signal
BB_bought_strict(close, bb) ==
    IF /\ ~BandIsNaN(bb)
       /\ bb[1].sum - (bb[1].period * close) > 0
       /\ ((bb[1].sum - (bb[1].period * close)) * (bb[1].sum - (bb[1].period * close)))
             * (bb[1].period - 1) > BandSpread(bb[1])
    THEN 1 ELSE 0

\* signal = 1 where close <= bb_lower
BB_bought(close, bb) == IF CloseLeLower(close, bb) THEN 1 ELSE 0

\* BollingerBands.generate_signals: each assignment is one vectorised pass
\* over the rows, its mask computed from the signal column as it stands
BB_generate_signals(self, close) ==
    LET rows        == 1..Len(close)
        bb          == calculate_bollinger_bands(close, self.period, self.std_dev)
        bought      == [ t \in rows |-> BB_bought(close[t], bb[t]) ]
        sold        == [ t \in rows |->
                           IF CloseGeUpper(close[t], bb[t]) THEN -1 ELSE bought[t] ]
        sold_prev   == SeriesShift(sold)
        exit_long   == [ t \in rows |->
                           IF CloseGeMiddle(close[t], bb[t]) /\ sold_prev[t] = << 1 >>
                           THEN 0 ELSE sold[t] ]
        exit_prev   == SeriesShift(exit_long)
        signal      == [ t \in rows |->
                           IF CloseLeMiddle(close[t], bb[t]) /\ exit_prev[t] = << -1 >>
                           THEN 0 ELSE exit_long[t] ]
        prev_signal == SeriesShift(signal)
        position    == [ t \in rows |-> Entry_position(signal[t], prev_signal[t]) ]
    IN  [ close     |-> close,
          bb        |-> bb,
          signal    |-> signal,
          position  |-> position,
          crossover |-> position ]

\* the columns of a bar frame of the data feed, and those validate_data
\* requires
BarColumns == {"timestamp", "open", "high", "low", "close", "volume"}

required_columns == {"open", "high", "low", "close", "volume"}

\* BaseStrategy.validate_data
validate_data(columns) == \A col \in required_columns : col \in columns

MAStrategies ==
    { [ name |-> "MA_CROSSOVER", short_window |-> sw, long_window |-> lw,
        ma_type |-> ty ] : sw \in {1, 2}, lw \in {2, 3}, ty \in {"SMA", "EMA"} }

RSIStrategies ==
    { [ name |-> "RSI_STRATEGY", period |-> pd, oversold |-> DEFAULT_OVERSOLD,
        overbought |-> DEFAULT_OVERBOUGHT ] : pd \in {1, 2} }

BBStrategies ==
    { [ name |-> "BOLLINGER_BANDS", period |-> pd, std_dev |-> sd ] :
        pd \in {1, 2, 3}, sd \in {1, 2} }

BarSequences == UNION { [1..n -> StrategyCloses] : n \in 0..MaxLen }

\* strategy.generate_signals(data) on a MACrossover
GenerateSignalsMA ==
    /\ signals = None
    /\ strategy[1].name = "MA_CROSSOVER"
    /\ validate_data(data_columns)
    /\ signals' = << MA_generate_signals(strategy[1], data) >>
    /\ UNCHANGED << strategy, data, data_columns, signals_summary >>
    /\ UNCHANGED << backtest_vars, ledger_vars, conc_vars >>

\* strategy.generate_signals(data) on an RSIStrategy
GenerateSignalsRSI ==
    /\ signals = None
    /\ strategy[1].name = "RSI_STRATEGY"
    /\ validate_data(data_columns)
    /\ signals' = << RSI_generate_signals(strategy[1], data) >>
    /\ UNCHANGED << strategy, data, data_columns, signals_summary >>
    /\ UNCHANGED << backtest_vars, ledger_vars, conc_vars >>

\* strategy.generate_signals(data) on a BollingerBands
GenerateSignalsBB ==
    /\ signals = None
    /\ strategy[1].name = "BOLLINGER_BANDS"
    /\ validate_data(data_columns)
    /\ signals' = << BB_generate_signals(strategy[1], data) >>
    /\ UNCHANGED << strategy, data, data_columns, signals_summary >>
    /\ UNCHANGED << backtest_vars, ledger_vars, conc_vars >>

\* df[df['crossover'] != 0]: the rows, from row t on, whose marker is not 0
RECURSIVE MarkedRows(_, _)
MarkedRows(crossover, t) ==
    IF t > Len(crossover) THEN << >>
    ELSE IF crossover[t] # 0 THEN << t >> \o MarkedRows(crossover, t + 1)
    ELSE MarkedRows(crossover, t + 1)

\* MACrossover.get_signals_summary: the events carry no reason (the averages
\* of the row, which they also carry, are left out here)
MA_get_signals_summary(self, close) ==
    LET frame == MA_generate_signals(self, close)
        rows  == MarkedRows(frame.crossover, 1)
    IN  [ i \in 1..Len(rows) |->
            [ timestamp |-> rows[i],
              signal    |-> IF frame.crossover[rows[i]] = 1 THEN "BUY" ELSE "SELL",
              price     |-> frame.close[rows[i]] ] ]

\* RSIStrategy.get_signals_summary (the rsi of the row is left out here)
RSI_get_signals_summary(self, close) ==
    LET frame == RSI_generate_signals(self, close)
        rows  == MarkedRows(frame.crossover, 1)
    IN  [ i \in 1..Len(rows) |->
            [ timestamp |-> rows[i],
              signal    |-> IF frame.crossover[rows[i]] = 1 THEN "BUY" ELSE "SELL",
              price     |-> frame.close[rows[i]],
              reason    |-> IF frame.crossover[rows[i]] = 1
                            THEN "RSI crossed oversold level"
                            ELSE "RSI crossed overbought level" ] ]

\* BollingerBands.get_signals_summary (the bands of the row are left out here)
BB_get_signals_summary(self, close) ==
    LET frame == BB_generate_signals(self, close)
        rows  == MarkedRows(frame.crossover, 1)
    IN  [ i \in 1..Len(rows) |->
            [ timestamp |-> rows[i],
              signal    |-> IF frame.crossover[rows[i]] = 1 THEN "BUY" ELSE "SELL",
              price     |-> frame.close[rows[i]],
              reason    |-> IF frame.crossover[rows[i]] = 1
                            THEN "Price touched lower band"
                            ELSE "Price touched upper band" ] ]

\* strategy.get_signals_summary(data), which generates the signals anew
GetSignalsSummary ==
    /\ signals_summary = None
    /\ validate_data(data_columns)
    /\ signals_summary' =
          << IF strategy[1].name = "MA_CROSSOVER"
             THEN MA_get_signals_summary(strategy[1], data)
             ELSE IF strategy[1].name = "RSI_STRATEGY"
             THEN RSI_get_signals_summary(strategy[1], data)
             ELSE BB_get_signals_summary(strategy[1], data) >>
    /\ UNCHANGED << strategy, data, data_columns, signals >>
    /\ UNCHANGED << backtest_vars, ledger_vars, conc_vars >>

InitStrategy ==
    /\ strategy \in { << st >> : st \in MAStrategies \cup RSIStrategies \cup BBStrategies }
    /\ data \in BarSequences
    /\ data_columns = BarColumns
    /\ signals = None
    /\ signals_summary = None
    /\ IdleBacktest
    /\ IdleLedger

NextStrategy ==
    \/ GenerateSignalsMA
    \/ GenerateSignalsRSI
    \/ GenerateSignalsBB
    \/ GetSignalsSummary

SpecStrategy == InitStrategy /\ [][NextStrategy]_vars

(***************************************************************************)
(* A backtest as the routes make it: a BacktestingEngine constructed on a  *)
(* strategy with the request's initial capital, and run(data) on a bar     *)
(* frame of the data feed.  The same engine may be run again.              *)
(***************************************************************************)
MaxRunBars == 4

MaxRuns == 2

\* self.strategy.generate_signals(data), by the class of the strategy
Strategy_generate_signals(self, close) ==
    IF self.name = "MA_CROSSOVER" THEN MA_generate_signals(self, close)
    ELSE IF self.name = "RSI_STRATEGY" THEN RSI_generate_signals(self, close)
    ELSE BB_generate_signals(self, close)

\* what get_historical_data returns: pd.DataFrame(), without columns, when no
\* data is found, else a frame of bars (which may have lost all its rows to
\* dropna)
RunInputs ==
    { [ columns |-> {}, close |-> << >> ] }
      \cup { [ columns |-> BarColumns, close |-> close ] :
               close \in UNION { [1..n -> StrategyCloses] : n \in 0..MaxRunBars } }

\* the mutation of C16: run() starts from the cash the previous run left
Engine_run_reset_keep_cash(self) ==
    [ self EXCEPT !.trades = << >>,
                  !.equity_curve = << >>,
                  !.portfolio_value = self.initial_capital,
                  !.positions = EmptyDict ]

\* run(): the attributes are set back to their initial values
Engine_run_reset(self) ==
    [ self EXCEPT !.trades = << >>,
                  !.equity_curve = << >>,
                  !.portfolio_value = self.initial_capital,
                  !.cash = self.initial_capital,
                  !.positions = EmptyDict ]

\* run(), up to the loop: the reset, then generate_signals, which raises
\* ValueError on a frame that lacks a required column
RunBegin ==
    /\ engine_pc \in {"constructed", "returned", "raised"}
    /\ Len(result) < MaxRuns
    /\ engine' = Engine_run_reset(engine)
    /\ df' = << >>
    /\ after_bar' = << >>
    /\ IF validate_data(data_columns)
       THEN /\ signals' = << Strategy_generate_signals(strategy[1], data) >>
            /\ engine_pc' = "loop"
            /\ result' = result
       ELSE /\ signals' = signals
            /\ engine_pc' = "raised"
            /\ result' = Append(result, [ raised |-> "ValueError: Invalid data format" ])
    /\ UNCHANGED << engine_args, strategy, data, data_columns, signals_summary >>
    /\ UNCHANGED << ledger_vars, conc_vars >>

\* run(): the loop body on the next row of the frame generate_signals returned
RunFrameRow ==
    /\ engine_pc = "loop"
    /\ Len(df) < Len(signals[1].close)
    /\ RunRow(signals[1].close[Len(df) + 1], signals[1].crossover[Len(df) + 1])

\* run(): the rows are exhausted, the result is returned
RunFrameReturn ==
    /\ engine_pc = "loop"
    /\ Len(df) = Len(signals[1].close)
    /\ RunReturn

InitRun ==
    /\ strategy \in { << st >> : st \in MAStrategies \cup RSIStrategies \cup BBStrategies }
    /\ \E input \in RunInputs : data = input.close /\ data_columns = input.columns
    /\ signals = None
    /\ signals_summary = None
    /\ \E ic \in CapitalArgs :
          /\ engine = Engine_init(ic, None)
          /\ engine_args = [ initial_capital |-> ic, commission |-> None ]
    /\ df = << >>
    /\ after_bar = << >>
    /\ engine_pc = "constructed"
    /\ result = << >>
    /\ IdleLedger

NextRun ==
    \/ RunBegin
    \/ RunFrameRow
    \/ RunFrameReturn

SpecRun == InitRun /\ [][NextRun]_vars

(***************************************************************************)
(* Claims about the backtest.                                              *)
(***************************************************************************)
HeldQuantity == DictGet(engine.positions, "STOCK", 0)

QuantityBefore(i) == IF i = 1 THEN 0 ELSE after_bar[i - 1].quantity

CashBefore(i) == IF i = 1 THEN engine.initial_capital ELSE after_bar[i - 1].cash

TradesAt(i) == { k \in 1..Len(engine.trades) : engine.trades[k].timestamp = i }

\* C1: after every bar and after every recorded trade of a backtest run, the
\* cash is >= 0 and the held quantity is >= 0; cash_after of every trade of
\* the log is >= 0.
C1_CashAndPositionNonNegative ==
    engine_pc # "none" =>
        /\ engine.cash >= 0
        /\ HeldQuantity >= 0
        /\ \A k \in 1..Len(engine.trades) :
              /\ engine.trades[k].cash_after >= 0
              /\ engine.trades[k].quantity >= 0
        /\ \A i \in 1..Len(after_bar) :
              after_bar[i].cash >= 0 /\ after_bar[i].quantity >= 0

\* C1 witness: a run that has bought and then sold
C1_Witness ==
    /\ engine_pc = "loop"
    /\ Len(engine.trades) >= 2
    /\ engine.trades[1].order_type = "BUY"
    /\ engine.trades[2].order_type = "SELL"
    /\ engine.cash > 0

\* C3: the backtest is a two-state machine Idle/Long: a BUY is recorded only on
\* a bar with marker +1 while no position is held, a SELL only on a bar with
\* marker -1 while a position is held; a marker +1 while Long and a marker -1
\* while Idle record no trade and leave cash and position unchanged; hence the
\* trade log alternates BUY, SELL, BUY, ... starting with BUY.
C3_TwoStateMachine ==
    engine_pc # "none" =>
        /\ \A k \in 1..Len(engine.trades) :
              LET t == engine.trades[k]
                  i == t.timestamp
              IN  /\ t.order_type = "BUY" =>
                        df[i].crossover = 1 /\ QuantityBefore(i) = 0
                  /\ t.order_type = "SELL" =>
                        df[i].crossover = -1 /\ QuantityBefore(i) > 0
        /\ \A i \in 1..Len(df) :
              (\/ df[i].crossover = 1 /\ QuantityBefore(i) > 0
               \/ df[i].crossover = -1 /\ QuantityBefore(i) = 0) =>
                  /\ TradesAt(i) = {}
                  /\ after_bar[i].cash = CashBefore(i)
                  /\ after_bar[i].quantity = QuantityBefore(i)
        /\ \A k \in 1..Len(engine.trades) :
              engine.trades[k].order_type = IF k % 2 = 1 THEN "BUY" ELSE "SELL"

\* C7: after a run over n bars the equity curve has n entries, one per bar in
\* bar order whether or not the bar traded; entry i has portfolio_value =
\* cash + position quantity * close_i taken after bar i's action; and
\* final_portfolio_value is the last entry's portfolio_value.
C7_EquityCurvePerBar ==
    engine_pc # "none" =>
        /\ Len(engine.equity_curve) = Len(df)
        /\ \A i \in 1..Len(df) :
              /\ engine.equity_curve[i].timestamp = df[i].timestamp
              /\ engine.equity_curve[i].cash = after_bar[i].cash
              /\ engine.equity_curve[i].portfolio_value =
                    after_bar[i].cash + after_bar[i].quantity * df[i].close
        /\ (engine_pc = "returned" /\ Len(df) > 0) =>
              /\ Len(result[1].equity_curve) = Len(df)
              /\ result[1].final_portfolio_value =
                    result[1].equity_curve[Len(df)].portfolio_value

\* C7 witness: a returned run of three bars or more in which one bar bought, a
\* later bar did not trade, and a position was being held at the end
C7_Witness ==
    /\ engine_pc = "returned"
    /\ Len(df) >= 3
    /\ \E i \in 1..Len(df) : TradesAt(i) # {}
    /\ \E i \in 2..Len(df) : TradesAt(i) = {} /\ after_bar[i].quantity > 0
    /\ after_bar[Len(df)].quantity > 0

(***************************************************************************)
(* Claims about the ledger, one request at a time.                         *)
(***************************************************************************)
CallIs(op) == call # None /\ call[1].op = op

\* the account of the latest request as the manager holds it after the call
Held == manager[1].portfolio

\* the account of the latest request as the database stores it after the call
Stored == db.portfolio[call[1].strategy]

ClaimCommission(price, quantity) == ((price * quantity) * COMMISSION) \div RateScale

\* C2: with quantity > 0 and a positive quoted price, every successful
\* execute_trade leaves the account's cash >= 0 and every entry of positions
\* > 0: no shorting, and no entry whose quantity is exactly 0.
C2_LedgerCashAndPositions ==
    /\ \A k \in DOMAIN db.portfolio :
          /\ db.portfolio[k].cash >= 0
          /\ \A s \in DOMAIN db.portfolio[k].positions :
                db.portfolio[k].positions[s] > 0
    /\ (CallIs("execute_trade") /\ call[1].raised = None) =>
          /\ Held.cash >= 0
          /\ \A s \in DOMAIN Held.positions : Held.positions[s] > 0

\* C2 witness: a successful SELL sold a whole position, whose entry is gone
C2_Witness ==
    /\ CallIs("execute_trade")
    /\ call[1].raised = None
    /\ call[1].order_type = "SELL"
    /\ call[1].symbol \in DOMAIN call[1].before.positions
    /\ call[1].symbol \notin DOMAIN Stored.positions
    /\ Stored.cash > 0

C5_ErrorsLeaveAccountUntouched ==
    (CallIs("execute_trade") /\ call[1].raised # None) =>
        /\ Held = call[1].before
        /\ Stored = call[1].before
        /\ db.trades = call[1].trades_before

\* C8: an operation that needs the price of a symbol for which the data feed
\* has no quote fails: the traded symbol of execute_trade, and every held
\* symbol of the equity of execute_trade and get_portfolio_summary.
C8_MissingQuoteFails ==
    call # None =>
        /\ (call[1].op = "execute_trade" /\ call[1].quote = None) =>
              call[1].raised # None
        /\ call[1].skipped # {} => call[1].raised # None

(***************************************************************************)
(* Claims about concurrent requests to the ledger.                         *)
(***************************************************************************)
\* the requests served one after the other, in the given order
RECURSIVE Replay(_, _)
Replay(database, order) ==
    IF order = << >> THEN database
    ELSE LET r == proc[Head(order)].req
             made == PM_init(database, r.strategy, None)
             done == PM_execute_trade(made.self, made.db, r.symbol, r.order_type,
                                      r.quantity, r.quote, r.eq_quotes)
         IN  Replay(done.db, Tail(order))

Orders == { o \in [1..NProcs -> Procs] : \A i, j \in 1..NProcs : i # j => o[i] # o[j] }

\* the Account of the data model: the row without its derived equity
Account(row) == [ f \in (DOMAIN row) \ {"equity"} |-> row[f] ]

SameAccounts(d1, d2) ==
    /\ DOMAIN d1.portfolio = DOMAIN d2.portfolio
    /\ \A k \in DOMAIN d1.portfolio :
          Account(d1.portfolio[k]) = Account(d2.portfolio[k])

AllDone == \A p \in Procs : proc[p].pc = "done"

\* C6: for any interleaving of execute_trade calls (load, check, modify,
\* commit) on one strategy key the final accounts are those of some serial
\* order of the calls, with cash >= 0 and positions >= 0; calls on other keys
\* do not change an account.
C6_SerialOutcome ==
    db_start # None =>
        /\ AllDone =>
              \E o \in Orders : SameAccounts(db, Replay(db_start, o))
        /\ \A k \in DOMAIN db.portfolio :
              /\ db.portfolio[k].cash >= 0
              /\ \A s \in DOMAIN db.portfolio[k].positions :
                    db.portfolio[k].positions[s] >= 0
        /\ \A k \in DOMAIN db_start.portfolio :
              (\A p \in Procs : proc[p].pc = "idle" \/ proc[p].req.strategy # k) =>
                  db.portfolio[k] = db_start.portfolio[k]

(***************************************************************************)
(* Claims about the strategies.                                            *)
(***************************************************************************)
Generated(name) == signals # None /\ strategy[1].name = name

Frame == signals[1]

Bars == 1..Len(Frame.signal)

\* the first bars of the maximal runs of the value v in a column
RunStarts(col, v) ==
    { t \in 1..Len(col) : col[t] = v /\ (t = 1 \/ col[t - 1] # v) }

\* C9: for MovingAverageCrossover the crossover marker at bar t is +1 exactly
\* when signal[t] - signal[t-1] = +2, -1 exactly when it is -2, and 0
\* otherwise, the first bar and every transition from or through signal 0
\* included; a run of bars with the same signal never fires a second event.
C9_CrossoverOnlyOnFlip ==
    Generated("MA_CROSSOVER") =>
        \A t \in Bars :
            /\ Frame.crossover[t] = 1 <=>
                  (t > 1 /\ Frame.signal[t] - Frame.signal[t - 1] = 2)
            /\ Frame.crossover[t] = -1 <=>
                  (t > 1 /\ Frame.signal[t] - Frame.signal[t - 1] = -2)
            /\ Frame.crossover[t] \in {-1, 0, 1}
            /\ (t = 1 \/ Frame.signal[t] = 0) => Frame.crossover[t] = 0
            /\ (t > 1 /\ Frame.signal[t - 1] = 0) => Frame.crossover[t] = 0
            /\ (t > 1 /\ Frame.signal[t] = Frame.signal[t - 1]) =>
                  Frame.crossover[t] = 0

\* C9 witness: a frame with a bullish crossover on one bar and, on another bar
\* after the first, a signal that rose from 0 to +1 without an event
C9_Witness ==
    /\ Generated("MA_CROSSOVER")
    /\ \E t \in Bars : Frame.crossover[t] = 1
    /\ \E t \in Bars : Frame.crossover[t] = -1
    /\ \E t \in Bars : /\ t > 1
                       /\ Frame.signal[t] = 1
                       /\ Frame.signal[t - 1] = 0
                       /\ Frame.crossover[t] = 0

\* C10: for RSIMomentum the entry marker is edge-triggered: marker[t] is
\* non-zero only on a bar whose signal is non-zero and differs from the
\* signal of the bar before, and then marker[t] = signal[t]; every maximal
\* run of bars with the same non-zero signal yields exactly one event, on its
\* first bar; so one run below oversold and one run above overbought yield
\* exactly two events, one BUY and one SELL.
C10_EntryIsEdgeTriggered ==
    Generated("RSI_STRATEGY") =>
        /\ \A t \in Bars :
              /\ Frame.crossover[t] # 0 <=>
                    /\ Frame.signal[t] # 0
                    /\ t > 1
                    /\ Frame.signal[t] # Frame.signal[t - 1]
              /\ Frame.crossover[t] # 0 => Frame.crossover[t] = Frame.signal[t]
        /\ { t \in Bars : Frame.crossover[t] = 1 } = RunStarts(Frame.signal, 1)
        /\ { t \in Bars : Frame.crossover[t] = -1 } = RunStarts(Frame.signal, -1)
        /\ (/\ Cardinality(RunStarts(Frame.signal, 1)) = 1
            /\ Cardinality(RunStarts(Frame.signal, -1)) = 1) =>
              /\ Cardinality({ t \in Bars : Frame.crossover[t] # 0 }) = 2
              /\ Cardinality({ t \in Bars : Frame.crossover[t] = 1 }) = 1
              /\ Cardinality({ t \in Bars : Frame.crossover[t] = -1 }) = 1

\* C10 witness: the RSI stayed above overbought for two bars or more and below
\* oversold for two bars or more, once each: two events
C10_Witness ==
    /\ Generated("RSI_STRATEGY")
    /\ Cardinality(RunStarts(Frame.signal, 1)) = 1
    /\ Cardinality(RunStarts(Frame.signal, -1)) = 1
    /\ \E t \in Bars : t > 1 /\ Frame.signal[t] = 1 /\ Frame.signal[t - 1] = 1
    /\ \E t \in Bars : t > 1 /\ Frame.signal[t] = -1 /\ Frame.signal[t - 1] = -1
    /\ Cardinality({ t \in Bars : Frame.crossover[t] # 0 }) = 2

(***************************************************************************)
(* Claims about the backtesting engine, continued.                        *)
(***************************************************************************)
\* C11: in an engine constructed with commission = 0, a BUY made from no
\* position and sold by the next trade at the same close price records a SELL
\* with pnl 0 and commission 0, and the cash after the SELL is the cash before
\* the BUY.
C11_ZeroCommissionRoundTrip ==
    engine_args.commission = << 0 >> =>
      \A k \in 1..(Len(engine.trades) - 1) :
        LET buy  == engine.trades[k]
            sell == engine.trades[k + 1]
        IN  ( /\ buy.order_type = "BUY"
              /\ sell.order_type = "SELL"
              /\ buy.price = sell.price
              /\ (k = 1 \/ engine.trades[k - 1].order_type = "SELL") )
            => /\ sell.pnl = 0
               /\ sell.commission = 0
               /\ sell.cash_after = buy.cash_after + buy.total

(***************************************************************************)
(* Claims about the Bollinger strategy.                                    *)
(***************************************************************************)
\* C13: on a BollingerBands frame, a bar whose close is at or below the lower
\* band, all markers before it being 0, has marker +1; and a bar whose close is
\* above the lower band never has marker +1.
C13_BuyAtLowerBand ==
    Generated("BOLLINGER_BANDS") =>
      \A k \in Bars :
        /\ ( /\ CloseLeLower(Frame.close[k], Frame.bb[k])
             /\ \A j \in 1..(k - 1) : Frame.crossover[j] = 0 )
           => Frame.crossover[k] = 1
        /\ Frame.crossover[k] = 1 => CloseLeLower(Frame.close[k], Frame.bb[k])

\* C13 amended: the marker is +1 on such a bar when its close is also below the
\* upper band, that is unless the window is flat and the two bands coincide at
\* the close; on a flat window the SELL rule, applied second, wins.
C13_BuyAtLowerBandBelowUpper ==
    Generated("BOLLINGER_BANDS") =>
      \A k \in Bars :
        /\ ( /\ CloseLeLower(Frame.close[k], Frame.bb[k])
             /\ \A j \in 1..(k - 1) : Frame.crossover[j] = 0 )
           => Frame.crossover[k] =
                (IF CloseGeUpper(Frame.close[k], Frame.bb[k]) THEN -1 ELSE 1)
        /\ Frame.crossover[k] = 1 => CloseLeLower(Frame.close[k], Frame.bb[k])

\* a close exactly on a lower band of non-zero width, marked BUY, no bar
\* before it being marked
C13_Witness ==
    /\ Generated("BOLLINGER_BANDS")
    /\ \E k \in Bars :
         /\ Frame.bb[k] # None
         /\ LET bb    == Frame.bb[k][1]
                below == bb.sum - (bb.period * Frame.close[k])
            IN  /\ below > 0
                /\ (below * below) * (bb.period - 1) = BandSpread(bb)
         /\ \A j \in 1..(k - 1) : Frame.crossover[j] = 0
         /\ Frame.crossover[k] = 1

(***************************************************************************)
(* Claims about the metrics and the result of a run.                       *)
(***************************************************************************)
\* the returns between consecutive equity values are all equal
ZeroVariance(equity_curve) ==
    \A t, u \in 2..Len(equity_curve) :
      LET gt == GCD(equity_curve[t].portfolio_value, equity_curve[t - 1].portfolio_value)
          gu == GCD(equity_curve[u].portfolio_value, equity_curve[u - 1].portfolio_value)
      IN  /\ equity_curve[t].portfolio_value \div gt
               = equity_curve[u].portfolio_value \div gu
          /\ equity_curve[t - 1].portfolio_value \div gt
               = equity_curve[u - 1].portfolio_value \div gu

\* C14: the sharpe ratio a run returns is exactly 0, and not NaN, whenever the
\* equity curve has fewer than 2 points or its returns have zero variance.
C14_SharpeZeroWhenDegenerate ==
    \A i \in 1..Len(result) :
      (Len(result[i].equity_curve) < 2 \/ ZeroVariance(result[i].equity_curve))
        => result[i].sharpe_ratio = "0"

\* the latest outcome of run(): what it returned or raised
LastRun == result[Len(result)]

RunEnded == engine_pc \in {"returned", "raised"}

\* C15: run() on an empty bar sequence raises nothing and returns an empty
\* trade log, an empty equity curve, final_portfolio_value = initial_capital and
\* every metric 0.
C15_EmptyBarsGiveZeroedResult ==
    (RunEnded /\ data = << >>) =>
      /\ engine_pc = "returned"
      /\ LastRun.trades = << >>
      /\ LastRun.equity_curve = << >>
      /\ LastRun.final_portfolio_value = LastRun.initial_capital
      /\ LastRun.total_trades = 0
      /\ \A key \in {"total_return", "total_return_percent", "winning_trades",
                     "losing_trades", "win_rate", "max_drawdown"} : LastRun[key] = 0
      /\ LastRun.sharpe_ratio = "0"

Constant(close) == \A t, u \in 1..Len(close) : close[t] = close[u]

\* C12: when no bar of the annotated frame has a non-zero marker, the run
\* records no trade, every equity point and final_portfolio_value equal
\* initial_capital and total_return is 0; and MACrossover on a constant close
\* series is such a frame, its signal being 0 on every bar.
C12_NoMarkerNoTrade ==
    engine_pc = "returned" =>
      /\ (\A t \in Bars : Frame.crossover[t] = 0)
           => /\ LastRun.trades = << >>
              /\ LastRun.total_trades = 0
              /\ Len(LastRun.equity_curve) = Len(data)
              /\ \A t \in 1..Len(LastRun.equity_curve) :
                   LastRun.equity_curve[t].portfolio_value = LastRun.initial_capital
              /\ LastRun.final_portfolio_value = LastRun.initial_capital
              /\ LastRun.total_return = 0
      /\ (strategy[1].name = "MA_CROSSOVER" /\ Constant(data))
           => \A t \in Bars : Frame.signal[t] = 0 /\ Frame.crossover[t] = 0

\* a MACrossover run over a constant series longer than both windows
C12_Witness ==
    /\ engine_pc = "returned"
    /\ strategy[1].name = "MA_CROSSOVER"
    /\ Constant(data)
    /\ Len(data) > strategy[1].long_window
    /\ Len(data) > strategy[1].short_window
    /\ Len(LastRun.equity_curve) = Len(data)
    /\ LastRun.trades = << >>

GenericFailure == 500

\* C17: a request that meets one of the expected conditions is answered by an
\* error of that condition's own kind: insufficient cash and insufficient
\* position each by its own error, and a missing quote (no data) by an error
\* that is neither of these nor the generic failure of an unclassified fault.
C17_ErrorKindsDistinct ==
    CallIs("execute_trade") =>
      LET c == call[1]
      IN  /\ c.quote = None
               => /\ c.raised # None
                  /\ c.status # GenericFailure
                  /\ c.raised[1] \notin { "ValueError: Insufficient cash",
                                          "ValueError: Insufficient position" }
          /\ ( /\ c.quote # None
               /\ c.order_type = "BUY"
               /\ c.before.cash < (c.quote[1] * c.quantity)
                                     + ClaimCommission(c.quote[1], c.quantity) )
               => /\ c.raised = << "ValueError: Insufficient cash" >>
                  /\ c.status # GenericFailure
          /\ ( /\ c.quote # None
               /\ c.order_type = "SELL"
               /\ DictGet(c.before.positions, c.symbol, 0) < c.quantity )
               => /\ c.raised = << "ValueError: Insufficient position" >>
                  /\ c.status # GenericFailure

\* the account a first reference to a strategy key creates
NewAccount(strategy_key) ==
    [ strategy       |-> strategy_key,
      cash           |-> INITIAL_CAPITAL,
      equity         |-> INITIAL_CAPITAL,
      positions      |-> EmptyDict,
      total_pnl      |-> 0,
      total_trades   |-> 0,
      winning_trades |-> 0,
      losing_trades  |-> 0 ]

\* C18: a step that refers to a strategy key for the first time stores a new
\* account with cash = equity = starting capital, no position and zero
\* counters; a reference to a stored key hands the manager the stored account
\* as it is; no account is ever removed; and get_portfolio_summary,
\* get_position and has_position leave every stored account as it was.
C18_AccountLifecycle ==
    [][ /\ \A key \in DOMAIN db.portfolio : key \in DOMAIN db'.portfolio
        /\ \A key \in DOMAIN db'.portfolio :
             /\ key \notin DOMAIN db.portfolio
                  => /\ call'[1].strategy = key
                     /\ call'[1].before = NewAccount(key)
                     /\ call'[1].op # "execute_trade"
                          => db'.portfolio[key] = NewAccount(key)
             /\ key \in DOMAIN db.portfolio
                  => /\ call'[1].strategy = key
                          => call'[1].before = db.portfolio[key]
                     /\ (call'[1].op # "execute_trade" \/ call'[1].strategy # key)
                          => db'.portfolio[key] = db.portfolio[key]
        /\ call'[1].op # "execute_trade" => db'.trades = db.trades ]_vars

\* an account that has traded is read by get_portfolio_summary and by
\* get_position
C18_Witness ==
    /\ call # None
    /\ call[1].op \in {"get_portfolio", "get_position"}
    /\ call[1].before.total_trades > 1
    /\ call[1].before.cash # INITIAL_CAPITAL
    /\ db.portfolio[call[1].strategy] = call[1].before

(***************************************************************************)
(* Claims about the trades of the backtest.                                *)
(***************************************************************************)
\* the price of the latest BUY trade before trade k of the log
EntryPrice(k) ==
    LET buys == { j \in 1..(k - 1) : engine.trades[j].order_type = "BUY" }
    IN  engine.trades[CHOOSE j \in buys : \A x \in buys : x <= j].price

\* C19: a bar with marker -1 met while holding q > 0 at close p records one
\* SELL of the whole quantity: the position becomes 0, the commission is
\* p * q * commission_rate, the cash grows by p * q - commission and the pnl is
\* (p - entry price) * q - commission, the entry price being that of the latest
\* BUY of the log; and every BUY records pnl 0.
C19_SellClosesWholePosition ==
    /\ \A i \in 1..Len(df) :
         (df[i].crossover = -1 /\ QuantityBefore(i) > 0) =>
           LET p == df[i].close
               q == QuantityBefore(i)
               commission == ((p * q) * engine.commission_rate) \div RateScale
           IN  /\ after_bar[i].quantity = 0
               /\ after_bar[i].cash = CashBefore(i) + ((p * q) - commission)
               /\ Cardinality(TradesAt(i)) = 1
               /\ \A k \in TradesAt(i) :
                    /\ engine.trades[k].order_type = "SELL"
                    /\ engine.trades[k].price = p
                    /\ engine.trades[k].quantity = q
                    /\ engine.trades[k].commission = commission
                    /\ engine.trades[k].total = (p * q) - commission
                    /\ engine.trades[k].cash_after = after_bar[i].cash
                    /\ engine.trades[k].pnl = ((p - EntryPrice(k)) * q) - commission
    /\ \A k \in 1..Len(engine.trades) :
         engine.trades[k].order_type = "BUY" => engine.trades[k].pnl = 0

\* a SELL at a price other than that of the BUY before it, with a commission
C19_Witness ==
    \E k \in 2..Len(engine.trades) :
      /\ engine.trades[k].order_type = "SELL"
      /\ engine.trades[k].commission > 0
      /\ engine.trades[k - 1].order_type = "BUY"
      /\ engine.trades[k - 1].price # engine.trades[k].price
      /\ engine.trades[k].pnl > 0

\* the BUY trades persisted before the latest request for its symbol and
\* strategy
PriorBuys ==
    { i \in 1..Len(call[1].trades_before) :
        /\ call[1].trades_before[i].order_type = "BUY"
        /\ call[1].trades_before[i].symbol = call[1].symbol
        /\ call[1].trades_before[i].strategy = call[1].strategy }

\* (price - avg_buy_price) * quantity - commission, avg_buy_price being the
\* quantity-weighted mean price of PriorBuys (0 when there are none)
ClaimSellPnl(price, quantity) ==
    LET bought == SumOver(PriorBuys,
                    [ i \in PriorBuys |-> call[1].trades_before[i].quantity ])
        paid   == SumOver(PriorBuys,
                    [ i \in PriorBuys |-> call[1].trades_before[i].price
                                            * call[1].trades_before[i].quantity ])
    IN  (IF bought > 0
         THEN (((price * bought) - paid) * quantity) \div bought
         ELSE price * quantity)
          - ClaimCommission(price, quantity)

SellsWhere(trades, keep(_)) ==
    Cardinality({ k \in 1..Len(trades) :
                    trades[k].order_type = "SELL" /\ keep(trades[k].pnl) })

AnyPnl(pnl) == TRUE

Gain(pnl) == pnl > 0

Loss(pnl) == pnl < 0

\* C21: in the metrics of a backtest run, winning_trades, losing_trades and
\* win_rate are computed over SELL trades only: win_rate = winning SELL trades
\* / number of SELL trades * 100, and 0 when there is no SELL trade.
C21_WinRateOverSells ==
    \A i \in 1..Len(result) :
      LET r     == result[i]
          sells == SellsWhere(r.trades, AnyPnl)
          wins  == SellsWhere(r.trades, Gain)
      IN  /\ r.winning_trades = wins
          /\ r.losing_trades = SellsWhere(r.trades, Loss)
          /\ r.win_rate = IF sells > 0 THEN (wins * 100) \div sells ELSE 0

(***************************************************************************)
(* The ledger with quotes one commission apart: a BUY of 1 at 9990 and a   *)
(* SELL of 1 at 10000 (commission 10000 * 1 * 0.001 = 10) break even.      *)
(***************************************************************************)
BreakEvenQuotes == { << 9990 >>, << 10000 >> }

NextLedgerBreakEven ==
    \/ \E k \in Strategies, s \in Symbols, ot \in OrderTypes, q \in Quantities,
          quote \in BreakEvenQuotes, eq \in EquityQuotes :
          ExecuteTradeRoute(k, s, ot, q, quote, eq)
    \/ \E k \in Strategies, eq \in EquityQuotes : GetPortfolioRoute(k, eq)
    \/ \E k \in Strategies, s \in Symbols : GetPosition(k, s)

SpecLedgerBreakEven == InitLedger /\ [][NextLedgerBreakEven]_vars

\* C22: on a successful ledger SELL winning_trades is incremented exactly when
\* the trade's pnl > 0 and losing_trades exactly when its pnl < 0; a SELL with
\* pnl = 0 and any BUY increment neither counter.
C22_CountersFollowPnlSign ==
    (CallIs("execute_trade") /\ call[1].raised = None) =>
        LET c   == call[1]
            pnl == c.returned[1].pnl
            won  == IF c.order_type = "SELL" /\ pnl > 0 THEN 1 ELSE 0
            lost == IF c.order_type = "SELL" /\ pnl < 0 THEN 1 ELSE 0
        IN  /\ Stored.winning_trades = c.before.winning_trades + won
            /\ Stored.losing_trades = c.before.losing_trades + lost
            /\ Held.winning_trades = Stored.winning_trades
            /\ Held.losing_trades = Stored.losing_trades

\* the trades of the table that belong to a strategy key
TradesOf(k) == { i \in 1..Len(db.trades) : db.trades[i].strategy = k }

\* C23: total_trades is the number of execute_trade calls that succeeded, BUY
\* and SELL alike, a failed call leaving it as it was; winning_trades +
\* losing_trades <= total_trades; the win_rate of get_portfolio_summary is
\* winning_trades / total_trades * 100, 0 when total_trades is 0, and lies in
\* [0, 100].
C23_TradeCountAndWinRate ==
    /\ \A k \in DOMAIN db.portfolio :
          /\ db.portfolio[k].total_trades = Cardinality(TradesOf(k))
          /\ db.portfolio[k].winning_trades + db.portfolio[k].losing_trades
                <= db.portfolio[k].total_trades
    /\ CallIs("execute_trade") =>
          /\ Stored.total_trades = call[1].before.total_trades
                                     + (IF call[1].raised = None THEN 1 ELSE 0)
          /\ Len(db.trades) = Len(call[1].trades_before)
                                     + (IF call[1].raised = None THEN 1 ELSE 0)
    /\ CallIs("get_portfolio") =>
          LET summary == call[1].returned[1]
          IN  /\ summary.total_trades = Stored.total_trades
              /\ summary.winning_trades = Stored.winning_trades
              /\ summary.win_rate =
                    IF Stored.total_trades = 0 THEN 0
                    ELSE (Stored.winning_trades * 100) \div Stored.total_trades
              /\ summary.win_rate >= 0
              /\ summary.win_rate <= 100

\* C23 witness: the summary of an account after a BUY, a winning SELL and one
\* more trade reports a win rate strictly between 0 and 100
C23_Witness ==
    /\ CallIs("get_portfolio")
    /\ Stored.total_trades = 3
    /\ Stored.winning_trades = 1
    /\ call[1].returned[1].win_rate = 33

(***************************************************************************)
(* Claims about the signal column of BollingerBands.                       *)
(***************************************************************************)
\* C24: for BollingerBands the signal is a held state: after a bar whose signal
\* is +1 the signal stays +1 on every following bar until the first bar whose
\* close is >= the middle band, where it is 0; symmetrically, after a bar whose
\* signal is -1 it stays -1 until the first bar whose close is <= the middle
\* band, where it is 0.
C24_SignalIsHeld ==
    Generated("BOLLINGER_BANDS") =>
      \A t \in Bars :
        t > 1 =>
          /\ Frame.signal[t - 1] = 1 =>
                Frame.signal[t] =
                  (IF CloseGeMiddle(Frame.close[t], Frame.bb[t]) THEN 0 ELSE 1)
          /\ Frame.signal[t - 1] = -1 =>
                Frame.signal[t] =
                  (IF CloseLeMiddle(Frame.close[t], Frame.bb[t]) THEN 0 ELSE -1)

(***************************************************************************)
(* Claims about get_signals_summary.                                       *)
(***************************************************************************)
\* the frame generate_signals returns for the strategy and the bars at hand
FrameOf ==
    IF strategy[1].name = "MA_CROSSOVER" THEN MA_generate_signals(strategy[1], data)
    ELSE IF strategy[1].name = "RSI_STRATEGY" THEN RSI_generate_signals(strategy[1], data)
    ELSE BB_generate_signals(strategy[1], data)

Summary == signals_summary[1]

\* the events of the summary are those of the marked bars, in bar order, with
\* the marker's direction and the bar's close
EventsMatchMarkers ==
    /\ \A i \in 1..Len(Summary) :
          /\ Summary[i].timestamp \in 1..Len(data)
          /\ FrameOf.crossover[Summary[i].timestamp] # 0
          /\ Summary[i].signal =
                (IF FrameOf.crossover[Summary[i].timestamp] = 1 THEN "BUY" ELSE "SELL")
          /\ FrameOf.crossover[Summary[i].timestamp] \in {-1, 1}
          /\ Summary[i].price = data[Summary[i].timestamp]
          /\ i > 1 => Summary[i - 1].timestamp < Summary[i].timestamp
    /\ \A t \in 1..Len(data) :
          FrameOf.crossover[t] # 0 =>
              \E i \in 1..Len(Summary) : Summary[i].timestamp = t

\* C25: for every strategy variant get_signals_summary returns, in bar order,
\* exactly one event per bar whose marker is not 0 and none for the other bars,
\* with direction BUY for marker +1 and SELL for marker -1, the bar's close as
\* price, and a reason string in every event.
C25_SummaryOfMarkedBars ==
    signals_summary # None =>
        /\ EventsMatchMarkers
        /\ \A i \in 1..Len(Summary) : "reason" \in DOMAIN Summary[i]

(***************************************************************************)
(* Claims about the columns of the annotated frame.                        *)
(***************************************************************************)
\* the position column at bar t as a cell: MACrossover's is a float column
\* (diff() leaves NaN on the first bar), the other variants' an int column
PositionCell(t) ==
    IF strategy[1].name = "MA_CROSSOVER" THEN Frame.position[t]
    ELSE << Frame.position[t] >>

\* C26: for each of the three strategy variants, on every bar, signal is in
\* {-1, 0, +1} and the position column and the crossover column both hold the
\* edge-triggered event marker: a value in {-1, 0, +1}, with
\* position[t] = crossover[t].
C26_SameOutputShape ==
    signals # None =>
      \A t \in Bars :
        /\ Frame.signal[t] \in {-1, 0, 1}
        /\ Frame.crossover[t] \in {-1, 0, 1}
        /\ PositionCell(t) = << Frame.crossover[t] >>

(***************************************************************************)
(* Claims about the realized pnl of a backtest.                            *)
(***************************************************************************)
\* the sum of a field over the trades of one order type
TradeSum(trades, order_type, field) ==
    LET rows == { k \in 1..Len(trades) : trades[k].order_type = order_type }
    IN  SumOver(rows, [ k \in rows |-> trades[k][field] ])

\* C27: a run that ends holding no position has final cash - initial_capital =
\* the sum of pnl over its SELL trades - the sum of commission over its BUY
\* trades, whatever the marker sequence.
C27_PnlReconcilesWithCash ==
    (engine_pc = "returned" /\ HeldQuantity = 0) =>
        engine.cash - engine.initial_capital =
            TradeSum(engine.trades, "SELL", "pnl")
              - TradeSum(engine.trades, "BUY", "commission")

(***************************************************************************)
(* Claims about orders of a quantity that is not positive.                 *)
(***************************************************************************)
\* C28: execute_trade with quantity <= 0 is rejected before any change of
\* state: it raises, the account held and stored keeps its cash, positions and
\* counters (no cash gained through a BUY, no negative position, no cash lost
\* through a SELL), and no Trade record is persisted.
C28_NonPositiveQuantityRejected ==
    (CallIs("execute_trade") /\ call[1].quantity <= 0) =>
        /\ call[1].raised # None
        /\ Held = call[1].before
        /\ Stored = call[1].before
        /\ db.trades = call[1].trades_before
        /\ \A s \in DOMAIN Stored.positions : Stored.positions[s] > 0

(***************************************************************************)
(* The account routes: routes/portfolio.py create_portfolio makes the      *)
(* account of a key with the starting capital of the request, and          *)
(* get_portfolio and routes/trades.py execute_trade later construct their  *)
(* PortfolioManager without one.                                           *)
(***************************************************************************)
CreateCapitals == { 0, 50000, 100000 }

NoQuotes == [ s \in Symbols |-> None ]

\* create_portfolio: 400 when the key has an account, else the summary of the
\* account PortfolioManager(db, strategy, initial_capital) creates
CreatePortfolioRoute(strategy_key, initial_capital) ==
    /\ IF strategy_key \in DOMAIN db.portfolio
       THEN /\ db' = db
            /\ manager' = None
            /\ call' = << [ op         |-> "create_portfolio",
                            strategy   |-> strategy_key,
                            symbol     |-> "",
                            order_type |-> "",
                            quantity   |-> 0,
                            quote      |-> None,
                            skipped    |-> {},
                            before     |-> db.portfolio[strategy_key],
                            trades_before |-> db.trades,
                            raised     |-> << "HTTPException" >>,
                            status     |-> 400,
                            returned   |-> None ] >>
       ELSE \E made \in { PM_init(db, strategy_key, << initial_capital >>) } :
            /\ db' = made.db
            /\ manager' = << made.self >>
            /\ call' = << [ op         |-> "create_portfolio",
                            strategy   |-> strategy_key,
                            symbol     |-> "",
                            order_type |-> "",
                            quantity   |-> 0,
                            quote      |-> None,
                            skipped    |-> {},
                            before     |-> made.self.portfolio,
                            trades_before |-> made.db.trades,
                            raised     |-> None,
                            status     |-> 200,
                            returned   |-> << PM_get_portfolio_summary(made.self,
                                                                       NoQuotes) >> ] >>
    /\ UNCHANGED << backtest_vars, conc_vars, strategy_vars >>

AccountKeys == {"MA_CROSSOVER", "RSI_STRATEGY"}

NextAccounts ==
    \/ \E k \in AccountKeys, ic \in CreateCapitals : CreatePortfolioRoute(k, ic)
    \/ \E k \in AccountKeys, eq \in EquityQuotes : GetPortfolioRoute(k, eq)
    \/ \E k \in AccountKeys, ot \in OrderTypes, eq \in EquityQuotes :
          ExecuteTradeRoute(k, "AAPL", ot, 1, << 10000 >>, eq)

SpecAccounts == InitLedger /\ [][NextAccounts]_vars

\* C29: the summary of an account on which no trade has executed reports
\* equity = cash = the account's starting capital, total_pnl = 0 and
\* total_pnl_percent = 0, whatever capital the account was created with and
\* whichever PortfolioManager reads it.
C29_UntradedAccountSummary ==
    ( /\ call # None
      /\ call[1].op \in {"get_portfolio", "create_portfolio"}
      /\ call[1].raised = None
      /\ Stored.total_trades = 0 ) =>
        LET summary == call[1].returned[1]
        IN  /\ summary.cash = Stored.cash
            /\ summary.equity = summary.cash
            /\ summary.total_pnl = 0
            /\ summary.total_pnl_percent = 0

(***************************************************************************)
(* Concurrent first references to a strategy key.  The portfolio table has *)
(* the primary key id and no unique constraint on strategy, so it is kept  *)
(* here as the sequence of its rows (portfolio_rows), the id of a row      *)
(* being its index; db holds the trades table.  _get_or_create_portfolio   *)
(* is a query followed, when it found nothing, by an insert and a commit,  *)
(* and nothing holds a lock between the two.                               *)
(***************************************************************************)
FirstCapitals == { None, << 50000 >> }

\* the ids of the rows the filter Portfolio.strategy == strategy_key selects
RowsOf(strategy_key) ==
    { i \in 1..Len(portfolio_rows) : portfolio_rows[i].strategy = strategy_key }

\* PortfolioManager.__init__ up to the query of _get_or_create_portfolio:
\* .first() of the rows of the key, in an order the query does not fix
QueryPortfolio(p, strategy_key, initial_capital) ==
    /\ proc[p].pc = "idle"
    /\ LET ic == OrDefault(initial_capital, INITIAL_CAPITAL)
           self0 == [ strategy        |-> strategy_key,
                      initial_capital |-> ic,
                      commission_rate |-> COMMISSION ]
       IN  IF RowsOf(strategy_key) = {}
           THEN proc' = [ proc EXCEPT ![p] =
                            [ pc |-> "absent", self |-> self0, id |-> None,
                              portfolio |-> None ] ]
           ELSE \E i \in RowsOf(strategy_key) :
                proc' = [ proc EXCEPT ![p] =
                            [ pc |-> "ready", self |-> self0, id |-> << i >>,
                              portfolio |-> << portfolio_rows[i] >> ] ]
    /\ UNCHANGED << db_start, portfolio_rows, ledger_vars >>
    /\ UNCHANGED << backtest_vars, strategy_vars >>

\* _get_or_create_portfolio, the branch 'if not portfolio': insert, commit
InsertPortfolio(p) ==
    /\ proc[p].pc = "absent"
    /\ LET portfolio == [ strategy       |-> proc[p].self.strategy,
                          cash           |-> proc[p].self.initial_capital,
                          equity         |-> proc[p].self.initial_capital,
                          positions      |-> EmptyDict,
                          total_pnl      |-> 0,
                          total_trades   |-> 0,
                          winning_trades |-> 0,
                          losing_trades  |-> 0 ]
       IN  /\ portfolio_rows' = Append(portfolio_rows, portfolio)
           /\ proc' = [ proc EXCEPT ![p] =
                          [ pc |-> "ready", self |-> proc[p].self,
                            id |-> << Len(portfolio_rows) + 1 >>,
                            portfolio |-> << portfolio >> ] ]
    /\ UNCHANGED << db_start, ledger_vars, backtest_vars, strategy_vars >>

\* execute_trade(symbol, BUY, 1) at quote 10000 by the manager of request p:
\* the commit updates the row the manager loaded, by its id
ExecuteOnRow(p, symbol) ==
    /\ proc[p].pc = "ready"
    /\ Len(db.trades) < MaxTrades
    /\ LET id   == proc[p].id[1]
           self == [ strategy        |-> proc[p].self.strategy,
                     initial_capital |-> proc[p].self.initial_capital,
                     commission_rate |-> proc[p].self.commission_rate,
                     portfolio       |-> proc[p].portfolio[1] ]
           view == [ portfolio |-> DictSet(EmptyDict, self.strategy, portfolio_rows[id]),
                     trades    |-> db.trades ]
           done == PM_execute_trade(self, view, symbol, "BUY", 1, << 10000 >>,
                                    [ s \in Symbols |->
                                        IF s = symbol THEN << 10000 >> ELSE None ])
       IN  /\ done.raised = None
           /\ portfolio_rows' = [ portfolio_rows EXCEPT
                                    ![id] = done.db.portfolio[self.strategy] ]
           /\ db' = [ db EXCEPT !.trades = done.db.trades ]
           /\ proc' = [ proc EXCEPT ![p] =
                          [ pc |-> "done", self |-> proc[p].self, id |-> proc[p].id,
                            portfolio |-> << done.self.portfolio >> ] ]
    /\ UNCHANGED << db_start, manager, call, backtest_vars, strategy_vars >>

\* the request of p is answered; p serves another request
RequestEnds(p) ==
    /\ proc[p].pc \in {"ready", "done"}
    /\ proc' = [ proc EXCEPT ![p] =
                   [ pc |-> "idle", self |-> None, id |-> None, portfolio |-> None ] ]
    /\ UNCHANGED << db_start, portfolio_rows, ledger_vars >>
    /\ UNCHANGED << backtest_vars, strategy_vars >>

InitFirstReference ==
    /\ portfolio_rows = << >>
    /\ db = EmptyDb
    /\ db_start = None
    /\ proc = [ p \in Procs |-> [ pc |-> "idle", self |-> None, id |-> None,
                                  portfolio |-> None ] ]
    /\ manager = None
    /\ call = None
    /\ IdleBacktest
    /\ IdleStrategy

NextFirstReference ==
    \/ \E p \in Procs, k \in Strategies, ic \in FirstCapitals :
          QueryPortfolio(p, k, ic)
    \/ \E p \in Procs : InsertPortfolio(p)
    \/ \E p \in Procs : ExecuteOnRow(p, "AAPL")
    \/ \E p \in Procs : RequestEnds(p)

SpecFirstReference == InitFirstReference /\ [][NextFirstReference]_vars

\* C30: however two or more first references to a key that has no account
\* interleave, at most one account exists for the key afterwards, and the
\* references and trades for the key all read and update that one account.
C30_OneAccountPerKey ==
    /\ \A k \in Strategies : Cardinality(RowsOf(k)) <= 1
    /\ \A p, q \in Procs :
          ( /\ proc[p].pc \in {"ready", "done"}
            /\ proc[q].pc \in {"ready", "done"}
            /\ proc[p].self.strategy = proc[q].self.strategy )
          => proc[p].id = proc[q].id

====
